---- MODULE Spec2Model ----
(***************************************************************************)
(* Arogo telemedicine backend: the real-time connection manager            *)
(* (backend/app/main.py, first ConnectionManager) and the conversation     *)
(* orchestrator (backend/app/services/chat_service.py).                    *)
(*                                                                         *)
(* SpecConn : connect / disconnect / send_message / handle_connection_error*)
(*            with send_json and asyncio.sleep as the suspension points.   *)
(* SpecChat : ChatService.process_message, one atomic step per message     *)
(*            (redis, pymongo and the model client are synchronous calls). *)
(* SpecStore: the cached context and the durable history under every       *)
(*            writer: process_message with storage failures and validator  *)
(*            verdicts, the HTTP chat service (routes/consultation.py),    *)
(*            and the passing of time for the cache TTL.                   *)
(* SpecEndpoint : websocket_endpoint of main.py with the ConnectionManager *)
(*            it uses (second definition), one receive loop per channel.   *)
(* SpecAnalysis : the functions of the response validator, the symptom     *)
(*            scorer and the recommendation generators, each applied to    *)
(*            an argument chosen in the initial state.                     *)
(***************************************************************************)
EXTENDS Integers, Sequences, FiniteSets, TLC

VARIABLES
    active_connections,   \* ConnectionManager.active_connections : session -> channel
    reconnect_attempts,   \* ConnectionManager.reconnect_attempts : session -> counter
    inflight,             \* send_message coroutines suspended in websocket.send_json
    sleeping,             \* handle_connection_error coroutines suspended in asyncio.sleep
    welcomes,             \* per session: welcome payloads delivered on its current channel
    redis,                \* redis key chat_context_<id> : the cached context
    mongo,                \* consultations_collection : the durable session record
    last,                 \* history: the operation that has just completed
    fail_streak,          \* history: consecutive send_json failures per session
    torn_down,            \* history: the "max attempts reached" branch was taken
    mode,                 \* per session: state derived by the last _generate_ai_response
    ever_assessing,       \* history: some invocation of the session was ASSESSING
    faults,               \* storage faults and expiries so far (bounds the model)
    ttl,                  \* seconds the redis key chat_context_<id> has left to live
    pc,                   \* websocket_endpoint: position of each channel's coroutine
    call                  \* SpecAnalysis: the function called and its argument

conn_vars == <<active_connections, reconnect_attempts, inflight, sleeping,
               welcomes, fail_streak, torn_down>>
chat_vars == <<mode, ever_assessing, call>>
vars == <<conn_vars, redis, mongo, last, chat_vars, faults, ttl, pc>>

----------------------------------------------------------------------------
(* Bounds *)
MaxInflight == 4      \* send_message coroutines of one session that have not returned
MaxBotTurns == 5      \* assistant turns per session in SpecChat
MaxFaults   == 1      \* cache expiries and redis / mongo failures in SpecChat
MaxExchanges == 2     \* messages stored per session in SpecStore and SpecEndpoint

Sessions == {"s1"}            \* consultation ids
Channels == {"ws1", "ws2"}    \* websocket objects

NoChannel == "none"   \* consultation_id not in active_connections
NoCounter == -1       \* consultation_id not in reconnect_attempts

max_reconnect_attempts == 3
QuestionThreshold == 4
SeverityThreshold == 7
ContextWindow == 5
conversation_expiry == 3600

----------------------------------------------------------------------------
(* A symptom dict, as far as the code reads it.  name is the set of table  *)
(* keys that occur in symptom['name'].lower() (named = FALSE: the dict has *)
(* no 'name' key); severity is <<v>> for the number v and <<>> for None.   *)
Symptom(keys, v) == [named |-> TRUE, name |-> keys, severity |-> <<v>>]

(* Conversation turns.  A turn keeps what the code reads of a message:     *)
(* its type, whether its content holds a question mark, and the symptoms   *)
(* of its symptom_analysis (user turns have none).                         *)
(* content tells where the text of the turn comes from: the patient, the   *)
(* model's completion, or the completion behind the urgency banner.        *)
SeverityValues == {2, 7}
SymptomLists == {<<>>} \cup {<<Symptom({"headache"}, v)>> : v \in SeverityValues}

UserTurn == [type |-> "user", question |-> FALSE, symptoms |-> <<>>,
             content |-> "patient"]
BotTurn(q, sy) == [type |-> "bot", question |-> q, symptoms |-> sy,
                   content |-> "completion"]

NoRecord == [chat_history |-> <<>>, last_context |-> <<>>, connection_state |-> "none"]

----------------------------------------------------------------------------
(* ChatService.get_conversation_context: the cached list, or [] when the   *)
(* key is absent or the redis call raises (the exception is swallowed).    *)
get_conversation_context(cache, s, redis_ok) ==
    IF redis_ok THEN cache[s] ELSE <<>>

----------------------------------------------------------------------------
(* ConnectionManager of main.py lines 54-205.  M is the pair of its two    *)
(* dictionaries: ac = active_connections, ra = reconnect_attempts.         *)
Manager == [ac |-> active_connections, ra |-> reconnect_attempts]

(* disconnect: the counter is deleted only inside the                      *)
(* "consultation_id in self.active_connections" branch.                    *)
disconnect(m, s) ==
    IF m.ac[s] # NoChannel
    THEN [ac |-> [m.ac EXCEPT ![s] = NoChannel],
          ra |-> [m.ra EXCEPT ![s] = NoCounter]]
    ELSE m

(* The try block of handle_connection_error.  exc = TRUE: the block raised *)
(* (KeyError in 2 ** self.reconnect_attempts[id] once disconnect has       *)
(* deleted the counter).  wait: the argument of asyncio.sleep, 0 when the  *)
(* sleep is not reached.  save: _save_conversation_state is called.        *)
handle_error_try(m, s) ==
    IF m.ra[s] = NoCounter
    THEN [m |-> m, exc |-> FALSE, wait |-> 0, branch |-> "no_counter",
          attempts |-> NoCounter, save |-> FALSE, handled |-> TRUE]
    ELSE LET m1 == [m EXCEPT !.ra[s] = @ + 1] IN
         IF m1.ra[s] <= max_reconnect_attempts
         THEN LET m2 == disconnect(m1, s) IN
              IF m2.ra[s] = NoCounter
              THEN [m |-> m2, exc |-> TRUE, wait |-> 0, branch |-> "retry",
                    attempts |-> m1.ra[s], save |-> FALSE, handled |-> TRUE]
              ELSE [m |-> m2, exc |-> FALSE, wait |-> 2 ^ m2.ra[s], branch |-> "retry",
                    attempts |-> m1.ra[s], save |-> FALSE, handled |-> TRUE]
         ELSE [m |-> disconnect(m1, s), exc |-> FALSE, wait |-> 0, branch |-> "terminal",
               attempts |-> m1.ra[s], save |-> TRUE, handled |-> TRUE]

(* Faulty variant: handle_connection_error without its except clause.     *)
handle_connection_error_nocatch(m, s) == handle_error_try(m, s)

(* handle_connection_error: the try block, and on any exception            *)
(* "except Exception: self.disconnect(consultation_id)".                   *)
handle_connection_error(m, s) ==
    LET r == handle_error_try(m, s) IN
    IF r.exc THEN [r EXCEPT !.m = disconnect(r.m, s), !.exc = FALSE] ELSE r

(* Faulty variant: the state is saved whatever the context read.           *)
save_conversation_state_always(rec, ctx, db_ok) ==
    IF db_ok
    THEN [rec EXCEPT !.last_context = ctx, !.connection_state = "disconnected"]
    ELSE rec

(* _save_conversation_state: update_one runs only "if context"; a failing  *)
(* update is logged and swallowed.                                         *)
save_conversation_state(rec, ctx, db_ok) ==
    IF ctx # <<>> /\ db_ok
    THEN [rec EXCEPT !.last_context = ctx, !.connection_state = "disconnected"]
    ELSE rec

(* _generate_welcome_message: the prompt variant chosen by "if context";   *)
(* any failure (no record, model call) yields the fixed fallback text.     *)
generate_welcome_message(ctx, gen_ok) ==
    IF ~gen_ok THEN "fallback"
    ELSE IF ctx # <<>> THEN "returning" ELSE "first_time"

ChannelFree(c) ==
    \A s \in Sessions : active_connections[s] # c /\ inflight[s][c] = 0

RECURSIVE SumOver(_, _)
SumOver(f, S) ==
    IF S = {} THEN 0
    ELSE LET x == CHOOSE y \in S : TRUE IN f[x] + SumOver(f, S \ {x})

(* send_message coroutines of session s that have not returned yet.        *)
InFlight(s) == SumOver(inflight[s], Channels) + sleeping[s]

NoOp == [op |-> "none", sid |-> "none", chan |-> NoChannel, raised |-> FALSE,
         handler |-> FALSE, branch |-> "none", attempts |-> NoCounter,
         wait |-> 0, ctx |-> <<>>, db_ok |-> TRUE, welcome |-> "none",
         derived |-> FALSE, valid |-> TRUE, text |-> "none", error |-> "none",
         stored |-> FALSE, res |-> <<>>]

NoCall == [fn |-> "none", arg |-> <<>>]

(* connect(websocket, consultation_id).  accept may raise (re-raised by    *)
(* connect).  The call self.send_message(...) of line 75 is not awaited:   *)
(* it builds a coroutine object that is never scheduled, so nothing is     *)
(* delivered and reconnect_attempts is not touched.                        *)
Connect(c, s) ==
    /\ ChannelFree(c)
    /\ \E accept_ok \in BOOLEAN, redis_ok \in BOOLEAN, gen_ok \in BOOLEAN :
        IF ~accept_ok
        THEN /\ last' = [NoOp EXCEPT !.op = "connect", !.sid = s, !.chan = c,
                                     !.raised = TRUE]
             /\ UNCHANGED <<active_connections, welcomes>>
        ELSE LET ctx == get_conversation_context(redis, s, redis_ok) IN
             /\ active_connections' = [active_connections EXCEPT ![s] = c]
             /\ welcomes' = [welcomes EXCEPT ![s] = 0]
             /\ last' = [NoOp EXCEPT !.op = "connect", !.sid = s, !.chan = c,
                                     !.ctx = ctx,
                                     !.welcome = generate_welcome_message(ctx, gen_ok)]
    /\ UNCHANGED <<reconnect_attempts, inflight, sleeping, fail_streak, torn_down,
                   redis, mongo, chat_vars, faults, ttl, pc>>

(* disconnect(consultation_id), called by the endpoint when the receive    *)
(* loop ends and by the shutdown hook.                                     *)
Disconnect(s) ==
    LET m == disconnect(Manager, s) IN
    /\ active_connections' = m.ac
    /\ reconnect_attempts' = m.ra
    /\ last' = [NoOp EXCEPT !.op = "disconnect", !.sid = s]
    /\ UNCHANGED <<inflight, sleeping, welcomes, fail_streak,
                   torn_down, redis, mongo, chat_vars, faults, ttl, pc>>

(* send_message up to its suspension in websocket.send_json; without a     *)
(* registered channel the call returns at once.                            *)
SendMessage(s) ==
    /\ InFlight(s) < MaxInflight
    /\ IF active_connections[s] # NoChannel
       THEN /\ inflight' = [inflight EXCEPT ![s][active_connections[s]] = @ + 1]
            /\ last' = [NoOp EXCEPT !.op = "send_start", !.sid = s,
                                    !.chan = active_connections[s]]
       ELSE /\ inflight' = inflight
            /\ last' = [NoOp EXCEPT !.op = "send_noop", !.sid = s]
    /\ UNCHANGED <<active_connections, reconnect_attempts, sleeping, welcomes,
                   fail_streak, torn_down, redis, mongo, chat_vars, faults, ttl, pc>>

(* Faulty variant: send_json returned and the counter is left as it is.    *)
SendOkKeepsCounter(s, c) ==
    /\ inflight[s][c] > 0
    /\ inflight' = [inflight EXCEPT ![s][c] = @ - 1]
    /\ fail_streak' = [fail_streak EXCEPT ![s] = 0]
    /\ last' = [NoOp EXCEPT !.op = "send_ok", !.sid = s, !.chan = c]
    /\ UNCHANGED <<active_connections, reconnect_attempts, sleeping, welcomes,
                   torn_down, redis, mongo, chat_vars, faults, ttl, pc>>

(* send_json returned: "Reset reconnect attempts on successful send".      *)
SendOk(s, c) ==
    /\ inflight[s][c] > 0
    /\ inflight' = [inflight EXCEPT ![s][c] = @ - 1]
    /\ reconnect_attempts' = [reconnect_attempts EXCEPT ![s] = 0]
    /\ fail_streak' = [fail_streak EXCEPT ![s] = 0]
    /\ last' = [NoOp EXCEPT !.op = "send_ok", !.sid = s, !.chan = c]
    /\ UNCHANGED <<active_connections, sleeping, welcomes,
                   torn_down, redis, mongo, chat_vars, faults, ttl, pc>>

(* send_json raised: the except clause awaits handle_connection_error,     *)
(* which runs without suspension up to asyncio.sleep (if it gets there).   *)
SendFail(s, c) ==
    /\ inflight[s][c] > 0
    /\ \E redis_ok \in BOOLEAN, db_ok \in BOOLEAN :
        LET r   == handle_connection_error(Manager, s)
            ctx == get_conversation_context(redis, s, redis_ok)
        IN
        /\ inflight' = [inflight EXCEPT ![s][c] = @ - 1]
        /\ active_connections' = r.m.ac
        /\ reconnect_attempts' = r.m.ra
        /\ sleeping' = [sleeping EXCEPT ![s] = IF r.wait > 0 THEN @ + 1 ELSE @]
        /\ mongo' = [mongo EXCEPT ![s] =
                        IF r.save THEN save_conversation_state(@, ctx, db_ok) ELSE @]
        /\ torn_down' = [torn_down EXCEPT ![s] = @ \/ r.branch = "terminal"]
        /\ fail_streak' = [fail_streak EXCEPT
                              ![s] = IF @ <= max_reconnect_attempts THEN @ + 1 ELSE @]
        /\ last' = [NoOp EXCEPT !.op = "send_fail", !.sid = s, !.chan = c,
                                !.raised = r.exc, !.handler = r.handled,
                                !.branch = r.branch, !.attempts = r.attempts,
                                !.wait = r.wait,
                                !.ctx = IF r.branch = "no_counter" THEN <<>> ELSE ctx,
                                !.db_ok = IF r.save THEN db_ok ELSE TRUE]
    /\ UNCHANGED <<welcomes, redis, chat_vars, faults, ttl, pc>>

(* asyncio.sleep is over: handle_connection_error and send_message return. *)
Wake(s) ==
    /\ sleeping[s] > 0
    /\ sleeping' = [sleeping EXCEPT ![s] = @ - 1]
    /\ last' = [NoOp EXCEPT !.op = "wake", !.sid = s]
    /\ UNCHANGED <<active_connections, reconnect_attempts, inflight, welcomes,
                   fail_streak, torn_down, redis, mongo, chat_vars, faults, ttl, pc>>

(* The cache entry reaches its expiry (setex, 3600 s).                     *)
Expire(s) ==
    /\ redis[s] # <<>>
    /\ faults < MaxFaults
    /\ faults' = faults + 1
    /\ redis' = [redis EXCEPT ![s] = <<>>]
    /\ ttl' = [ttl EXCEPT ![s] = 0]
    /\ last' = [NoOp EXCEPT !.op = "expire", !.sid = s]
    /\ UNCHANGED <<conn_vars, mongo, chat_vars, pc>>

SampleContext == <<UserTurn, BotTurn(TRUE, <<>>)>>

InitConn ==
    /\ active_connections = [s \in Sessions |-> NoChannel]
    /\ reconnect_attempts = [s \in Sessions |-> NoCounter]
    /\ inflight = [s \in Sessions |-> [c \in Channels |-> 0]]
    /\ sleeping = [s \in Sessions |-> 0]
    /\ welcomes = [s \in Sessions |-> 0]
    /\ redis \in [Sessions -> {<<>>, SampleContext}]
    /\ mongo = [s \in Sessions |-> [NoRecord EXCEPT !.chat_history = redis[s]]]
    /\ last = NoOp
    /\ fail_streak = [s \in Sessions |-> 0]
    /\ torn_down = [s \in Sessions |-> FALSE]
    /\ mode = [s \in Sessions |-> "none"]
    /\ ever_assessing = [s \in Sessions |-> FALSE]
    /\ faults = 0
    /\ ttl = [s \in Sessions |-> IF redis[s] # <<>> THEN conversation_expiry ELSE 0]
    /\ pc = [s \in Sessions |-> [c \in Channels |-> "closed"]]
    /\ call = NoCall

NextConn ==
    \/ \E c \in Channels, s \in Sessions : Connect(c, s)
    \/ \E s \in Sessions : Disconnect(s)
    \/ \E s \in Sessions : SendMessage(s)
    \/ \E s \in Sessions, c \in Channels : SendOk(s, c)
    \/ \E s \in Sessions, c \in Channels : SendFail(s, c)
    \/ \E s \in Sessions : Wake(s)
    \/ \E s \in Sessions : Expire(s)

SpecConn == InitConn /\ [][NextConn]_vars

----------------------------------------------------------------------------
(* ChatService (services/chat_service.py) and the scoring helpers of       *)
(* SymptomAnalyzer it calls.                                               *)

(* question_count = sum(1 for msg in context                               *)
(*                      if msg['type'] == 'bot' and '?' in msg['content']) *)
RECURSIVE count_bot_questions(_)
count_bot_questions(msgs) ==
    IF msgs = <<>> THEN 0
    ELSE (IF Head(msgs).type = "bot" /\ Head(msgs).question THEN 1 ELSE 0)
         + count_bot_questions(Tail(msgs))

(* context[-5:] of _format_context: the last 5 messages.                   *)
last_messages(context) ==
    IF Len(context) <= ContextWindow THEN context
    ELSE SubSeq(context, Len(context) - ContextWindow + 1, Len(context))

(* Faulty variant: questions are counted in the prompt window only.        *)
question_count_window(context) == count_bot_questions(last_messages(context))

question_count(context) == count_bot_questions(context)

(* The dict analyze_symptoms appends for a symptom:                        *)
(*   'name': symptom.get('name', 'Unknown'),                               *)
(*   'severity': float(symptom.get('severity', 0) or 0)                    *)
(* 'Unknown' holds no table key; no bound is applied to the severity.      *)
symptom_entry(symptom) ==
    [named |-> TRUE,
     name |-> IF symptom.named THEN symptom.name ELSE {},
     severity |-> IF symptom.severity = <<>> THEN <<0>> ELSE symptom.severity]

RECURSIVE collect_symptoms(_)
collect_symptoms(chat_history) ==
    IF chat_history = <<>> THEN <<>>
    ELSE [i \in 1..Len(Head(chat_history).symptoms) |->
              symptom_entry(Head(chat_history).symptoms[i])]
         \o collect_symptoms(Tail(chat_history))

(* analyze_symptoms: an entry for every symptom of every message that      *)
(* carries a symptom_analysis, in message order.                           *)
analyze_symptoms(chat_history) == collect_symptoms(chat_history)

RECURSIVE SumSeq(_)
SumSeq(q) == IF q = <<>> THEN 0 ELSE Head(q) + SumSeq(Tail(q))

(* The list `severities` of calculate_severity_score: float(severity) of   *)
(* every symptom whose severity is not None.                               *)
RECURSIVE severities(_)
severities(symptoms) ==
    IF symptoms = <<>> THEN <<>>
    ELSE Head(symptoms).severity \o severities(Tail(symptoms))

(* calculate_severity_score: 0.0 for no symptoms or no severity, else the  *)
(* mean sum(severities) / len(severities), kept as the fraction num / den. *)
calculate_severity_score(symptoms) ==
    IF severities(symptoms) = <<>> THEN [num |-> 0, den |-> 1]
    ELSE [num |-> SumSeq(severities(symptoms)), den |-> Len(severities(symptoms))]

(* "question_count >= 4 or severity_score >= 7" of the prompt template.    *)
final_assessment(context) ==
    LET score == calculate_severity_score(analyze_symptoms(context)) IN
    \/ question_count(context) >= QuestionThreshold
    \/ score.num >= SeverityThreshold * score.den

(* update_chat_history: one update_one ($push) per message; the first      *)
(* failing one is logged and re-raised, the earlier pushes stay.           *)
update_chat_history(rec, messages, pushed) ==
    [rec EXCEPT !.chat_history = @ \o SubSeq(messages, 1, pushed)]

(* store_conversation_context: setex of the whole list; a failure is       *)
(* logged and swallowed.                                                   *)
store_conversation_context(cache, s, context, store_ok) ==
    IF store_ok THEN [cache EXCEPT ![s] = context] ELSE cache

Outcomes == {"no_record", "ai_fail", "ok"}

(* validate_medical_response: the verdict parsed from the model's answer,  *)
(* of which the code reads is_valid (stored with the turn only) and        *)
(* emergency_level == "high".                                              *)
Validations == [is_valid : BOOLEAN, emergency_high : BOOLEAN]
Accepted == [is_valid |-> TRUE, emergency_high |-> FALSE]

(* _process_response: the display text is the completion, put behind the   *)
(* urgency banner when validation.get("emergency_level") == "high";        *)
(* validation["is_valid"] is not read.                                     *)
process_response(validation) ==
    IF validation.emergency_high THEN "urgent_completion" ELSE "completion"

(* process_message(consultation_id, message): no call in it suspends, so   *)
(* the whole pipeline is one step.                                         *)
(*   no_record : find_one returns None, consultation.get raises            *)
(*   ai_fail   : generate_content raises in _generate_ai_response (after   *)
(*               the state was derived), in analyze_conversation or in     *)
(*               validate_medical_response                                 *)
(*   ok        : both turns are appended, stored and pushed; pushed < 2 is *)
(*               update_chat_history raising after `pushed` pushes         *)
(* env holds the results the collaborators may give in the specification   *)
(* at hand: question and symptoms (the completion has a question mark, the *)
(* severities analyze_conversation extracts), store (the cache write       *)
(* succeeds), pushed (durable pushes done) and verdicts (the validation).  *)
process_message(s, env) ==
    /\ Len(redis[s]) < 2 * MaxBotTurns
    /\ Len(mongo[s].chat_history) < 2 * MaxBotTurns
    /\ \E redis_ok \in BOOLEAN, outcome \in Outcomes, q \in env.question,
          sy \in env.symptoms, store_ok \in env.store, pushed \in env.pushed,
          validation \in env.verdicts :
        LET context  == Append(get_conversation_context(redis, s, redis_ok), UserTurn)
            derived  == outcome # "no_record"
            assess   == final_assessment(context)
            bot_message == [BotTurn(q, sy) EXCEPT !.content = process_response(validation)]
            context2 == Append(context, bot_message)
            raised   == outcome # "ok" \/ pushed < 2
        IN
        /\ outcome # "ok" => (~q /\ sy = <<>> /\ store_ok /\ pushed = 2
                                 /\ validation = Accepted)
        /\ faults' = faults + (IF redis_ok THEN 0 ELSE 1) + (IF store_ok THEN 0 ELSE 1)
                             + (IF pushed = 2 THEN 0 ELSE 1)
        /\ faults' <= MaxFaults
        /\ mode' = [mode EXCEPT ![s] =
                       IF ~derived THEN @
                       ELSE IF assess THEN "ASSESSING" ELSE "GATHERING"]
        /\ ever_assessing' = [ever_assessing EXCEPT ![s] = @ \/ (derived /\ assess)]
        /\ redis' = IF outcome = "ok"
                    THEN store_conversation_context(redis, s, context2, store_ok)
                    ELSE redis
        /\ ttl' = IF outcome = "ok" /\ store_ok
                  THEN [ttl EXCEPT ![s] = conversation_expiry]
                  ELSE ttl
        /\ mongo' = [mongo EXCEPT ![s] =
                        IF outcome = "ok"
                        THEN update_chat_history(@, <<UserTurn, bot_message>>, pushed)
                        ELSE @]
        /\ last' = [NoOp EXCEPT !.op = "process_message", !.sid = s,
                                !.raised = raised,
                                !.branch = outcome,
                                !.ctx = IF derived THEN context ELSE <<>>,
                                !.derived = derived,
                                !.valid = validation.is_valid,
                                !.text = IF raised THEN "none" ELSE bot_message.content,
                                !.stored = (outcome = "ok" /\ store_ok)]
    /\ UNCHANGED <<conn_vars, call>>

(* A message handled while the cache write and the durable pushes succeed  *)
(* and the validation accepts the completion.                              *)
ChatEnv == [question |-> BOOLEAN, symptoms |-> SymptomLists,
            store |-> {TRUE}, pushed |-> {2}, verdicts |-> {Accepted}]

ProcessMessage(s) == process_message(s, ChatEnv) /\ UNCHANGED pc

InitChat ==
    /\ active_connections = [s \in Sessions |-> NoChannel]
    /\ reconnect_attempts = [s \in Sessions |-> NoCounter]
    /\ inflight = [s \in Sessions |-> [c \in Channels |-> 0]]
    /\ sleeping = [s \in Sessions |-> 0]
    /\ welcomes = [s \in Sessions |-> 0]
    /\ redis = [s \in Sessions |-> <<>>]
    /\ mongo = [s \in Sessions |-> NoRecord]
    /\ last = NoOp
    /\ fail_streak = [s \in Sessions |-> 0]
    /\ torn_down = [s \in Sessions |-> FALSE]
    /\ mode = [s \in Sessions |-> "none"]
    /\ ever_assessing = [s \in Sessions |-> FALSE]
    /\ faults = 0
    /\ ttl = [s \in Sessions |-> 0]
    /\ pc = [s \in Sessions |-> [c \in Channels |-> "closed"]]
    /\ call = NoCall

NextChat ==
    \/ \E s \in Sessions : ProcessMessage(s)
    \/ \E s \in Sessions : Expire(s)

SpecChat == InitChat /\ [][NextChat]_vars

----------------------------------------------------------------------------
(* The cached context and the durable history under all their writers.     *)

(* Room for one more exchange in the cache and in the durable history.     *)
RoomFor(s) ==
    /\ Len(redis[s]) < 2 * MaxExchanges
    /\ Len(mongo[s].chat_history) < 2 * MaxExchanges

(* websocket pipeline: process_message with every result of the cache      *)
(* write, the durable pushes and the validation.                           *)
StoreEnv == [question |-> BOOLEAN, symptoms |-> {<<>>},
             store |-> BOOLEAN, pushed |-> 0..2, verdicts |-> Validations]

StoreMessage(s) ==
    /\ RoomFor(s)
    /\ process_message(s, StoreEnv)
    /\ UNCHANGED pc

(* The copy store_conversation_context of routes/consultation.py makes of  *)
(* a message: type, content and timestamp only.                            *)
message_copy(m) == [m EXCEPT !.symptoms = <<>>]

(* store_conversation_context of routes/consultation.py.  The statement    *)
(* serializable_context.append(message_copy) stands after the for loop,    *)
(* not in it: the list written with ex=3600 holds the copy of the last     *)
(* message only.  A failure is logged and swallowed.                       *)
http_store_conversation_context(cache, s, context, store_ok) ==
    IF store_ok /\ context # <<>>
    THEN [cache EXCEPT ![s] = <<message_copy(context[Len(context)])>>]
    ELSE cache

(* POST /message/{consultation_id} (handle_message).  update_chat_history  *)
(* of the HTTP chat service pushes the user message to the durable record, *)
(* then reads the cached context, appends the message and stores it; an    *)
(* exception of the push is caught (return False).  The following call     *)
(* chat_service.get_ai_response(message.get("content", "")) lacks its      *)
(* second argument and raises TypeError, so the route always ends in       *)
(* HTTPException(status_code=500, detail=str(e)).                          *)
HandleMessage(s) ==
    /\ RoomFor(s)
    /\ \E push_ok \in BOOLEAN, redis_ok \in BOOLEAN, store_ok \in BOOLEAN :
        LET context == Append(get_conversation_context(redis, s, redis_ok), UserTurn) IN
        /\ ~push_ok => (redis_ok /\ store_ok)
        /\ faults' = faults + (IF push_ok THEN 0 ELSE 1) + (IF redis_ok THEN 0 ELSE 1)
                             + (IF store_ok THEN 0 ELSE 1)
        /\ faults' <= MaxFaults
        /\ mongo' = [mongo EXCEPT ![s] =
                        IF push_ok THEN update_chat_history(@, <<UserTurn>>, 1) ELSE @]
        /\ redis' = IF push_ok
                    THEN http_store_conversation_context(redis, s, context, store_ok)
                    ELSE redis
        /\ ttl' = IF push_ok /\ store_ok
                  THEN [ttl EXCEPT ![s] = conversation_expiry]
                  ELSE ttl
        /\ last' = [NoOp EXCEPT !.op = "handle_message", !.sid = s,
                                !.raised = TRUE,
                                !.ctx = IF push_ok THEN context ELSE <<>>,
                                !.stored = (push_ok /\ store_ok),
                                !.error = "exception_text"]
    /\ UNCHANGED <<conn_vars, chat_vars, pc>>

(* EnhancedConnectionManager.process_message (routes/websocket.py): the    *)
(* payload returned when the chatbot call raised (call_ok = FALSE), when   *)
(* the validator rejected the completion, and when it accepted it.         *)
enhanced_process_message(call_ok, is_valid) ==
    IF ~call_ok
    THEN [status |-> "error", message |-> "trouble_apology", error |-> "exception_text"]
    ELSE IF ~is_valid
    THEN [status |-> "error", message |-> "repeat_fallback", error |-> "validator_reason"]
    ELSE [status |-> "success", message |-> "enhanced_completion", error |-> "none"]

(* Time passes on a freshly written cache entry: half its lifetime is gone.*)
Elapse(s) ==
    /\ redis[s] # <<>>
    /\ ttl[s] = conversation_expiry
    /\ ttl' = [ttl EXCEPT ![s] = conversation_expiry \div 2]
    /\ last' = [NoOp EXCEPT !.op = "elapse", !.sid = s]
    /\ UNCHANGED <<conn_vars, redis, mongo, chat_vars, faults, pc>>

InitStore == InitChat

NextStore ==
    \/ \E s \in Sessions : StoreMessage(s)
    \/ \E s \in Sessions : HandleMessage(s)
    \/ \E s \in Sessions : Elapse(s)
    \/ \E s \in Sessions : Expire(s)

SpecStore == InitStore /\ [][NextStore]_vars

----------------------------------------------------------------------------
(* websocket_endpoint of main.py (lines 359-430) and the ConnectionManager *)
(* it uses (second definition, lines 342-357).  pc[s][c] is the position   *)
(* of the coroutine that serves channel c opened with consultation id s:   *)
(*   closed       no endpoint coroutine runs for the channel               *)
(*   receiving    suspended in websocket.receive_text()                    *)
(*   processing   running json.loads .. process_message ..                 *)
(*                process_text_to_speech, up to the next send_json         *)
(*   send_bot     suspended in send_json(response_data)                    *)
(*   send_invalid suspended in send_json of "Invalid message format"       *)
(*   send_error   suspended in send_json(error_response)                   *)
SendStates == {"send_bot", "send_invalid", "send_error"}

(* Faulty variant: a coroutine is taken off the event loop in the middle   *)
(* of the pipeline.                                                        *)
EventLoopAlwaysIdle == TRUE

(* asyncio runs one coroutine at a time and switches only where a          *)
(* coroutine awaits something that suspends.  Nothing between receive_text *)
(* and send_json does (redis, pymongo and the model client are blocking    *)
(* calls), so no other coroutine takes a step while a channel is           *)
(* processing.                                                             *)
EventLoopIdle == \A s \in Sessions, c \in Channels : pc[s][c] # "processing"

(* ConnectionManager.connect after accept: the entry of the session is     *)
(* overwritten.                                                            *)
manager_connect(ac, c, s) == [ac EXCEPT ![s] = c]

(* Faulty variant: the handlers that end the loop do not disconnect.       *)
manager_disconnect_skipped(ac, s) == ac

(* ConnectionManager.disconnect: the entry of the session is deleted,      *)
(* whatever channel it holds.                                              *)
manager_disconnect(ac, s) == [ac EXCEPT ![s] = NoChannel]

(* Faulty variant: a failure while handling a JSON error ends the loop     *)
(* as in the outer handler, also when the error payload was delivered.     *)
after_send_outer(kind, send_ok) ==
    IF kind = "send_bot" THEN (IF send_ok THEN "receiving" ELSE "send_error")
    ELSE IF kind = "send_invalid" THEN "closed"
    ELSE "receiving"

(* Where the loop goes when a send_json returns or raises.                 *)
(*   send_bot     : a failure is caught by the inner "except Exception",   *)
(*                  which sends error_response                             *)
(*   send_invalid : the send stands in an except clause, unguarded: a      *)
(*                  failure leaves the while loop for the outer handlers   *)
(*   send_error   : the send is wrapped in try / bare except               *)
after_send(kind, send_ok) ==
    IF kind = "send_bot" THEN (IF send_ok THEN "receiving" ELSE "send_error")
    ELSE IF kind = "send_invalid" THEN (IF send_ok THEN "receiving" ELSE "closed")
    ELSE "receiving"

(* websocket_endpoint is invoked for a new channel: manager.connect.  A    *)
(* failing accept propagates (connect is called outside the try).          *)
OpenChannel(c, s) ==
    /\ EventLoopIdle
    /\ \A s2 \in Sessions : pc[s2][c] = "closed"
    /\ \E accept_ok \in BOOLEAN :
        /\ active_connections' = IF accept_ok
                                 THEN manager_connect(active_connections, c, s)
                                 ELSE active_connections
        /\ pc' = [pc EXCEPT ![s][c] = IF accept_ok THEN "receiving" ELSE "closed"]
        /\ last' = [NoOp EXCEPT !.op = "ws_connect", !.sid = s, !.chan = c,
                                !.raised = ~accept_ok]
    /\ UNCHANGED <<reconnect_attempts, inflight, sleeping, welcomes, fail_streak,
                   torn_down, redis, mongo, chat_vars, faults, ttl>>

(* receive_text returns a message; json.loads parses it or raises          *)
(* JSONDecodeError, whose handler sends the "Invalid message format"       *)
(* payload.                                                                *)
ReceiveText(c, s) ==
    /\ EventLoopIdle
    /\ pc[s][c] = "receiving"
    /\ \E parse_ok \in BOOLEAN :
        /\ parse_ok => RoomFor(s)
        /\ pc' = [pc EXCEPT ![s][c] = IF parse_ok THEN "processing" ELSE "send_invalid"]
        /\ last' = [NoOp EXCEPT !.op = "receive_text", !.sid = s, !.chan = c,
                                !.branch = IF parse_ok THEN "parsed" ELSE "malformed",
                                !.text = IF parse_ok THEN "none" ELSE "invalid_format",
                                !.error = IF parse_ok THEN "none" ELSE "fixed"]
    /\ UNCHANGED <<conn_vars, redis, mongo, chat_vars, faults, ttl>>

EndpointEnv == [question |-> BOOLEAN, symptoms |-> {<<>>},
                store |-> {TRUE}, pushed |-> {2}, verdicts |-> {Accepted}]

(* The pipeline of a parsed message up to the next send_json: the response *)
(* payload when process_message returned, error_response when it raised    *)
(* (a failure of process_text_to_speech is caught and changes nothing).    *)
Pipeline(c, s) ==
    /\ pc[s][c] = "processing"
    /\ process_message(s, EndpointEnv)
    /\ pc' = [pc EXCEPT ![s][c] = IF last'.raised THEN "send_error" ELSE "send_bot"]

(* A send_json of the loop returns or raises.  When the loop is left, the  *)
(* outer handlers call manager.disconnect(consultation_id).                *)
SendReturns(c, s) ==
    /\ EventLoopIdle
    /\ pc[s][c] \in SendStates
    /\ \E send_ok \in BOOLEAN :
        LET next == after_send(pc[s][c], send_ok) IN
        /\ pc' = [pc EXCEPT ![s][c] = next]
        /\ active_connections' = IF next = "closed"
                                 THEN manager_disconnect(active_connections, s)
                                 ELSE active_connections
        /\ last' = [NoOp EXCEPT !.op = "send_json", !.sid = s, !.chan = c,
                                !.branch = pc[s][c], !.raised = ~send_ok]
    /\ UNCHANGED <<reconnect_attempts, inflight, sleeping, welcomes, fail_streak,
                   torn_down, redis, mongo, chat_vars, faults, ttl>>

(* receive_text raises (WebSocketDisconnect or a transport error): the     *)
(* outer handlers call manager.disconnect(consultation_id).                *)
ReceiveRaises(c, s) ==
    /\ EventLoopIdle
    /\ pc[s][c] = "receiving"
    /\ pc' = [pc EXCEPT ![s][c] = "closed"]
    /\ active_connections' = manager_disconnect(active_connections, s)
    /\ last' = [NoOp EXCEPT !.op = "loop_end", !.sid = s, !.chan = c]
    /\ UNCHANGED <<reconnect_attempts, inflight, sleeping, welcomes, fail_streak,
                   torn_down, redis, mongo, chat_vars, faults, ttl>>

InitEndpoint == InitChat

NextEndpoint ==
    \/ \E c \in Channels, s \in Sessions : OpenChannel(c, s)
    \/ \E c \in Channels, s \in Sessions : ReceiveText(c, s)
    \/ \E c \in Channels, s \in Sessions : Pipeline(c, s)
    \/ \E c \in Channels, s \in Sessions : SendReturns(c, s)
    \/ \E c \in Channels, s \in Sessions : ReceiveRaises(c, s)

SpecEndpoint == InitEndpoint /\ [][NextEndpoint]_vars

(***************************************************************************)
(* SpecAnalysis: validator, scorer and generators applied to one argument. *)
(***************************************************************************)

Range(q) == {q[i] : i \in 1..Len(q)}

(* AIResponseValidator.required_patterns, in the order of the dictionary.  *)
required_patterns ==
    <<"symptom_mention", "confidence_score", "recommendation", "emergency_keywords">>

MinResponseLength == 50
LowConfidence == 70

(* A completion, as far as the validator looks at it: its length, the      *)
(* required patterns it matches, and what _process_response would extract  *)
(* from it (confidence tags, recommendation tags).                         *)
ResponseLengths == {MinResponseLength - 1, MinResponseLength}
Completions == [length : ResponseLengths, matches : SUBSET Range(required_patterns)]

(* AIResponseValidator._process_response.  has_emergency is computed as    *)
(* any(re.search(...)): re.search returns a Match or None, neither is      *)
(* iterable, so the call raises TypeError for every completion.            *)
validator_process_response(response) ==
    [raised |-> TRUE, error |-> "not_iterable"]

(* AIResponseValidator.validate_response: (is_valid, error_msg); missing   *)
(* is the list of names the message enumerates.                            *)
validate_response(response) ==
    IF response.length < MinResponseLength
    THEN [is_valid |-> FALSE, error |-> "too_short", missing |-> <<>>]
    ELSE LET missing_patterns ==
                 SelectSeq(required_patterns, LAMBDA name : name \notin response.matches)
         IN  IF missing_patterns # <<>>
             THEN [is_valid |-> FALSE, error |-> "missing_elements",
                   missing |-> missing_patterns]
             ELSE IF validator_process_response(response).raised
             THEN [is_valid |-> FALSE, error |-> "validation_error", missing |-> <<>>]
             ELSE [is_valid |-> TRUE, error |-> "none", missing |-> <<>>]

(* The processed dictionary enhance_response reads.                        *)
ConfidenceValues == {0, LowConfidence - 1, LowConfidence, 100}
RecommendationLists == {<<>>, <<"rest">>}
ProcessedResponses ==
    [average_confidence : ConfidenceValues, requires_emergency : BOOLEAN,
     recommendations : RecommendationLists]

(* Faulty variant: the emergency banner is appended after the disclaimer   *)
(* instead of being put in front of the text.                              *)
enhance_response_banner_appended(response) ==
    LET body == <<"main_response">>
        noted == IF response.average_confidence < LowConfidence
                 THEN Append(body, "disclaimer") ELSE body
        warned == IF response.requires_emergency
                  THEN Append(noted, "banner") ELSE noted
    IN  IF response.recommendations # <<>>
        THEN Append(warned, "recommendations") ELSE warned

(* AIResponseValidator.enhance_response: the parts of the returned text in *)
(* the order they appear in it.                                            *)
enhance_response(response) ==
    LET body == <<"main_response">>
        noted == IF response.average_confidence < LowConfidence
                 THEN Append(body, "disclaimer") ELSE body
        warned == IF response.requires_emergency
                  THEN <<"banner">> \o noted ELSE noted
    IN  IF response.recommendations # <<>>
        THEN Append(warned, "recommendations") ELSE warned

RiskLevels == {"low", "medium", "high"}
ResponseInputs == [risk_level : RiskLevels, validation : Validations]

AnalysisUnchanged ==
    UNCHANGED <<conn_vars, redis, mongo, chat_vars, faults, ttl, pc>>

(* A call of AIResponseValidator.validate_response.                        *)
Validate ==
    /\ call.fn = "validate_response"
    /\ last.op = "none"
    /\ LET result == validate_response(call.arg) IN
       last' = [NoOp EXCEPT !.op = "validate_response",
                            !.valid = result.is_valid, !.res = result]
    /\ AnalysisUnchanged

(* A call of EnhancedConnectionManager.process_message with the completion *)
(* the model would return.  The chatbot call                               *)
(* self.chatbots[consultation_id].process_message(message) always raises:  *)
(* KeyError while the session has no chatbot (nothing adds one), TypeError *)
(* (user_details is missing) once it has; the validator is not reached.    *)
(* update_consultation_analysis then reads requires_emergency from the     *)
(* payload with the default False.                                         *)
EnhancedMessage(s) ==
    /\ call.fn = "enhanced_process_message"
    /\ last.op = "none"
    /\ LET payload == enhanced_process_message(FALSE, validate_response(call.arg).is_valid) IN
       last' = [NoOp EXCEPT !.op = "enhanced_process_message", !.sid = s,
                            !.text = payload.message, !.error = payload.error,
                            !.res = [requires_emergency |-> FALSE]]
    /\ AnalysisUnchanged

(* A call of AIResponseValidator.enhance_response.                         *)
Enhance ==
    /\ call.fn = "enhance_response"
    /\ last.op = "none"
    /\ last' = [NoOp EXCEPT !.op = "enhance_response",
                            !.res = enhance_response(call.arg)]
    /\ AnalysisUnchanged

(* A call of ChatService._process_response: the display text of the        *)
(* payload for a validation verdict and a derived risk level.              *)
ProcessResponse ==
    /\ call.fn = "_process_response"
    /\ last.op = "none"
    /\ last' = [NoOp EXCEPT !.op = "_process_response",
                            !.text = process_response(call.arg.validation),
                            !.res = [risk_level |-> call.arg.risk_level]]
    /\ AnalysisUnchanged

MaxSymptoms == 2
HighRiskScore == 8
MediumRiskScore == 5
UrgentPrecautionScore == 7
ModeratePrecautionScore == 4
MildScore == 3
ModerateScore == 7

(* A symptom record without a 'name' key, and one whose severity is None.  *)
Unnamed(v) == [named |-> FALSE, name |-> {}, severity |-> <<v>>]
Unrated(keys) == [named |-> TRUE, name |-> keys, severity |-> <<>>]

(* All sequences over S of length at most n.                               *)
SeqUpTo(S, n) == UNION {[1..k -> S] : k \in 0..n}

(* Symptom lists handed to the scorer: raw severities below, inside and    *)
(* above the 0..10 scale, and None.                                        *)
RawSeverities == {-3, 0, MediumRiskScore, HighRiskScore, 15}
ScoredSymptoms == {Symptom({"headache"}, v) : v \in RawSeverities} \cup {Unrated({"headache"})}
ScoredLists == SeqUpTo(ScoredSymptoms, MaxSymptoms)

(* Chat histories handed to analyze_symptoms: no message, a patient        *)
(* message only, a patient message and a reply with a symptom analysis.    *)
Histories == {<<>>, <<UserTurn>>} \cup {<<UserTurn, BotTurn(FALSE, l)>> : l \in ScoredLists}

(* Symptom lists handed to the generators.                                 *)
GeneratorNames == {{"headache"}, {"fever"}, {"fever", "pain"}, {}}
GeneratorSeverities == {2, ModeratePrecautionScore, UrgentPrecautionScore, HighRiskScore}
GeneratorSymptoms ==
    {Symptom(keys, v) : keys \in GeneratorNames, v \in GeneratorSeverities}
    \cup {Unnamed(HighRiskScore)}
GeneratorLists == SeqUpTo(GeneratorSymptoms, MaxSymptoms)

(* Faulty variant: the two thresholds are exchanged.                       *)
determine_risk_level_swapped(symptoms) ==
    LET severity_score == calculate_severity_score(symptoms) IN
    IF severity_score.num >= MediumRiskScore * severity_score.den
       /\ severity_score.num < HighRiskScore * severity_score.den THEN "high"
    ELSE IF severity_score.num >= HighRiskScore * severity_score.den THEN "medium"
    ELSE "low"

(* determine_risk_level: the score is compared with 8.0 and 5.0.           *)
determine_risk_level(symptoms) ==
    LET severity_score == calculate_severity_score(symptoms) IN
    IF severity_score.num >= HighRiskScore * severity_score.den THEN "high"
    ELSE IF severity_score.num >= MediumRiskScore * severity_score.den THEN "medium"
    ELSE "low"

recommend_timeframe(symptoms) ==
    LET risk_level == determine_risk_level(symptoms) IN
    IF risk_level = "high" THEN "immediate"
    ELSE IF risk_level = "medium" THEN "within 24 hours"
    ELSE "within a week"

recommend_specialist(symptoms) == "General Practitioner"

(* The three answers for one symptom list.                                 *)
triage(symptoms) ==
    [risk_level |-> determine_risk_level(symptoms),
     timeframe |-> recommend_timeframe(symptoms),
     specialist |-> recommend_specialist(symptoms)]

(* The tables of consultation_helpers.py, in the order of the dictionaries.*)
symptom_meds ==
    << [key |-> "headache", items |-> <<"Acetaminophen", "Ibuprofen">>],
       [key |-> "fever", items |-> <<"Acetaminophen", "Ibuprofen">>],
       [key |-> "cough", items |-> <<"Dextromethorphan", "Expectorant">>],
       [key |-> "allergies", items |-> <<"Antihistamine", "Nasal Decongestant">>],
       [key |-> "pain", items |-> <<"Pain Reliever", "Anti-inflammatory medication">>],
       [key |-> "nausea", items |-> <<"Anti-nausea medication">>],
       [key |-> "indigestion", items |-> <<"Antacid">>],
       [key |-> "anxiety", items |-> <<"Consult doctor for appropriate medication">>],
       [key |-> "insomnia", items |-> <<"Consult doctor for sleep medication">>] >>

symptom_remedies ==
    << [key |-> "headache",
        items |-> <<"Rest in a quiet, dark room", "Apply cold or warm compress",
                    "Stay hydrated">>],
       [key |-> "fever",
        items |-> <<"Rest and get plenty of sleep", "Stay hydrated",
                    "Use a light blanket if chills occur">>],
       [key |-> "cough",
        items |-> <<"Drink warm honey and lemon tea", "Use a humidifier",
                    "Stay hydrated">>],
       [key |-> "sore throat",
        items |-> <<"Gargle with warm salt water", "Drink warm liquids",
                    "Use throat lozenges">>],
       [key |-> "nausea",
        items |-> <<"Eat small, frequent meals", "Avoid strong odors", "Try ginger tea">>],
       [key |-> "stress",
        items |-> <<"Practice deep breathing exercises", "Try meditation or yoga",
                    "Get regular exercise">>] >>

symptom_precautions ==
    << [key |-> "fever",
        items |-> <<"Monitor temperature regularly", "Stay hydrated",
                    "Avoid exposure to extreme temperatures">>],
       [key |-> "breathing",
        items |-> <<"Avoid smoke and other irritants", "Keep head elevated while resting",
                    "Use prescribed inhaler if available">>],
       [key |-> "pain",
        items |-> <<"Avoid movements that aggravate the pain",
                    "Apply ice/heat as recommended",
                    "Take prescribed medication as directed">>] >>

base_precautions ==
    <<"Monitor your symptoms regularly",
      "Keep track of any changes in symptom intensity",
      "Maintain good hygiene practices">>

urgent_precautions ==
    <<"Seek immediate medical attention if symptoms worsen",
      "Avoid strenuous activities",
      "Have someone stay with you or check on you regularly">>

moderate_precautions ==
    <<"Limit daily activities as needed", "Get adequate rest",
      "Contact healthcare provider if symptoms persist">>

RECURSIVE Flatten(_)
Flatten(lists) ==
    IF lists = <<>> THEN <<>> ELSE Head(lists) \o Flatten(Tail(lists))

(* for symptom in symptoms: for key, items in table.items():               *)
(*     if key in symptom['name'].lower(): collected.extend(items)          *)
extend_matching(table, symptoms) ==
    Flatten([j \in 1..Len(symptoms) |->
                Flatten([i \in 1..Len(table) |->
                            IF table[i].key \in symptoms[j].name
                            THEN table[i].items ELSE <<>>])])

(* symptom['name'] raises KeyError on a record without the key.            *)
name_missing(symptoms) == \E j \in 1..Len(symptoms) : ~symptoms[j].named

(* list(dict.fromkeys(items)): every item once, at its first position.     *)
RECURSIVE dict_fromkeys(_)
dict_fromkeys(items) ==
    IF items = <<>> THEN <<>>
    ELSE LET front == dict_fromkeys(SubSeq(items, 1, Len(items) - 1))
             item == items[Len(items)]
         IN  IF item \in Range(front) THEN front ELSE Append(front, item)

Raised == [raised |-> TRUE, items |-> <<>>]
Listed(items) == [raised |-> FALSE, items |-> items]

generate_medication_recommendations(symptoms) ==
    IF name_missing(symptoms) THEN Raised
    ELSE Listed(dict_fromkeys(extend_matching(symptom_meds, symptoms)))

(* Faulty variant: the collected remedies are returned as they are.        *)
generate_home_remedies_collected(symptoms) ==
    IF name_missing(symptoms) THEN Raised
    ELSE Listed(extend_matching(symptom_remedies, symptoms))

generate_home_remedies(symptoms) ==
    IF name_missing(symptoms) THEN Raised
    ELSE Listed(dict_fromkeys(extend_matching(symptom_remedies, symptoms)))

(* Faulty variant: the second severity test is "if", not "elif".           *)
collected_precautions_both(symptoms) ==
    LET severity_score == calculate_severity_score(symptoms) IN
    base_precautions
    \o (IF severity_score.num > UrgentPrecautionScore * severity_score.den
        THEN urgent_precautions ELSE <<>>)
    \o (IF severity_score.num > ModeratePrecautionScore * severity_score.den
        THEN moderate_precautions ELSE <<>>)
    \o extend_matching(symptom_precautions, symptoms)

(* The precautions before the duplicates are removed.                      *)
collected_precautions(symptoms) ==
    LET severity_score == calculate_severity_score(symptoms) IN
    base_precautions
    \o (IF severity_score.num > UrgentPrecautionScore * severity_score.den
        THEN urgent_precautions
        ELSE IF severity_score.num > ModeratePrecautionScore * severity_score.den
        THEN moderate_precautions
        ELSE <<>>)
    \o extend_matching(symptom_precautions, symptoms)

generate_precautions(symptoms) ==
    IF name_missing(symptoms) THEN Raised
    ELSE Listed(dict_fromkeys(collected_precautions(symptoms)))

(* generate_diagnosis_description: the loop over the analysed symptoms     *)
(* reads symptom['intensity'], a key analyze_symptoms does not produce     *)
(* (it writes 'severity'), so any analysed symptom raises KeyError.        *)
generate_diagnosis_description(chat_history) ==
    LET symptoms == analyze_symptoms(chat_history)
        severity_score == calculate_severity_score(symptoms)
    IN  IF symptoms # <<>>
        THEN [raised |-> TRUE, risk_level |-> "none", assessment |-> "none"]
        ELSE [raised |-> FALSE,
              risk_level |-> determine_risk_level(symptoms),
              assessment |->
                  IF severity_score.num <= MildScore * severity_score.den THEN "mild"
                  ELSE IF severity_score.num <= ModerateScore * severity_score.den
                  THEN "needs attention"
                  ELSE "needs prompt attention"]

(* A call of analyze_symptoms followed by calculate_severity_score.        *)
Analyze ==
    /\ call.fn = "analyze_symptoms"
    /\ last.op = "none"
    /\ last' = [NoOp EXCEPT !.op = "analyze_symptoms",
                            !.res = [symptoms |-> analyze_symptoms(call.arg),
                                     score |-> calculate_severity_score(
                                                   analyze_symptoms(call.arg))]]
    /\ AnalysisUnchanged

(* determine_risk_level, recommend_timeframe and recommend_specialist on   *)
(* one symptom list.                                                       *)
Triage ==
    /\ call.fn = "determine_risk_level"
    /\ last.op = "none"
    /\ last' = [NoOp EXCEPT !.op = "determine_risk_level", !.res = triage(call.arg)]
    /\ AnalysisUnchanged

(* The same three functions on two symptom lists.                          *)
CompareRisk ==
    /\ call.fn = "compare_risk"
    /\ last.op = "none"
    /\ last' = [NoOp EXCEPT !.op = "compare_risk",
                            !.res = <<triage(call.arg[1]), triage(call.arg[2])>>]
    /\ AnalysisUnchanged

(* The three generators on one symptom list.                               *)
Recommend ==
    /\ call.fn = "generate_recommendations"
    /\ last.op = "none"
    /\ LET result == [medications |-> generate_medication_recommendations(call.arg),
                      remedies |-> generate_home_remedies(call.arg),
                      precautions |-> generate_precautions(call.arg)] IN
       last' = [NoOp EXCEPT !.op = "generate_recommendations",
                            !.raised = \/ result.medications.raised
                                       \/ result.remedies.raised
                                       \/ result.precautions.raised,
                            !.res = result]
    /\ AnalysisUnchanged

(* A call of generate_diagnosis_description on a chat history.             *)
Describe ==
    /\ call.fn = "generate_diagnosis_description"
    /\ last.op = "none"
    /\ LET result == generate_diagnosis_description(call.arg) IN
       last' = [NoOp EXCEPT !.op = "generate_diagnosis_description",
                            !.raised = result.raised, !.res = result]
    /\ AnalysisUnchanged

Calls ==
    {[fn |-> "validate_response", arg |-> a] : a \in Completions}
    \cup {[fn |-> "enhanced_process_message", arg |-> a] : a \in Completions}
    \cup {[fn |-> "enhance_response", arg |-> a] : a \in ProcessedResponses}
    \cup {[fn |-> "_process_response", arg |-> a] : a \in ResponseInputs}
    \cup {[fn |-> "analyze_symptoms", arg |-> a] : a \in Histories}
    \cup {[fn |-> "determine_risk_level", arg |-> a] : a \in ScoredLists}
    \cup {[fn |-> "compare_risk", arg |-> a] : a \in ScoredLists \X ScoredLists}
    \cup {[fn |-> "generate_recommendations", arg |-> a] : a \in GeneratorLists}
    \cup {[fn |-> "generate_diagnosis_description", arg |-> a] : a \in Histories}

InitAnalysis ==
    /\ active_connections = [s \in Sessions |-> NoChannel]
    /\ reconnect_attempts = [s \in Sessions |-> NoCounter]
    /\ inflight = [s \in Sessions |-> [c \in Channels |-> 0]]
    /\ sleeping = [s \in Sessions |-> 0]
    /\ welcomes = [s \in Sessions |-> 0]
    /\ redis = [s \in Sessions |-> <<>>]
    /\ mongo = [s \in Sessions |-> NoRecord]
    /\ last = NoOp
    /\ fail_streak = [s \in Sessions |-> 0]
    /\ torn_down = [s \in Sessions |-> FALSE]
    /\ mode = [s \in Sessions |-> "none"]
    /\ ever_assessing = [s \in Sessions |-> FALSE]
    /\ faults = 0
    /\ ttl = [s \in Sessions |-> 0]
    /\ pc = [s \in Sessions |-> [c \in Channels |-> "closed"]]
    /\ call \in Calls

NextAnalysis ==
    \/ Validate
    \/ \E s \in Sessions : EnhancedMessage(s)
    \/ Enhance
    \/ ProcessResponse
    \/ Analyze
    \/ Triage
    \/ CompareRisk
    \/ Recommend
    \/ Describe

SpecAnalysis == InitAnalysis /\ [][NextAnalysis]_vars

----------------------------------------------------------------------------
(* Properties of the connection manager (SpecConn).  `last` describes the  *)
(* operation that has just completed, so a predicate guarded by last.op    *)
(* speaks about the state right after that operation.                      *)

HandledFailure == last.op = "send_fail"

(* C1: after max_reconnect_attempts + 1 (= 4) consecutive send failures of *)
(* a session, with no successful send in between, the terminal branch has  *)
(* been taken (channel and counter removed, state saved) and the handler   *)
(* paces no further reconnection.                                          *)
C1_ReconnectionBound ==
    (HandledFailure /\ fail_streak[last.sid] = max_reconnect_attempts + 1)
        => /\ torn_down[last.sid]
           /\ active_connections[last.sid] = NoChannel
           /\ reconnect_attempts[last.sid] = NoCounter
           /\ last.wait = 0

(* C2: handle_connection_error increments the counter and, while the       *)
(* incremented value is <= 3, removes the channel and then waits           *)
(* 2^attempts time units before it returns.                                *)
C2_BackoffWait ==
    (HandledFailure /\ last.branch = "retry")
        => /\ last.attempts <= max_reconnect_attempts
           /\ active_connections[last.sid] = NoChannel
           /\ last.wait = 2 ^ last.attempts

(* C3 as stated: whenever the handler finds attempts > 3, the channel is   *)
(* removed and the durable record holds the cached context together with   *)
(* connection_state = disconnected.                                        *)
C3_TerminalAlwaysFlushes ==
    (HandledFailure /\ last.branch = "terminal")
        => /\ active_connections[last.sid] = NoChannel
           /\ mongo[last.sid].connection_state = "disconnected"
           /\ mongo[last.sid].last_context = redis[last.sid]

(* C3 amended: whenever the handler finds attempts > 3, the channel is     *)
(* removed; the durable record gets the context just read from the cache   *)
(* and connection_state = disconnected when that context is non-empty and  *)
(* the update succeeds, and is left as it was otherwise.                   *)
C3_TerminalFlush ==
    [][(last'.op = "send_fail" /\ last'.branch = "terminal")
          => /\ last'.attempts > max_reconnect_attempts
             /\ active_connections'[last'.sid] = NoChannel
             /\ IF last'.ctx # <<>> /\ last'.db_ok
                THEN mongo'[last'.sid] =
                        [mongo[last'.sid] EXCEPT !.last_context = last'.ctx,
                                                 !.connection_state = "disconnected"]
                ELSE mongo' = mongo]_vars

C3_Witness ==
    /\ HandledFailure /\ last.branch = "terminal"
    /\ last.ctx # <<>> /\ last.db_ok
    /\ mongo[last.sid].connection_state = "disconnected"
    /\ mongo[last.sid].last_context = SampleContext

ConnectReturned == last.op = "connect" /\ ~last.raised

(* C4: after connect returns normally the registry maps the session to the *)
(* new channel and the session's retry counter exists and equals 0.        *)
C4_ConnectResetsCounter ==
    ConnectReturned
        => /\ active_connections[last.sid] = last.chan
           /\ reconnect_attempts[last.sid] = 0

(* C5: every successful connect delivers exactly one welcome message on    *)
(* the new channel, the returning-patient variant for a non-empty loaded   *)
(* context and the first-time variant for an empty one (the fixed fallback *)
(* text when the message cannot be generated).                             *)
C5_WelcomeDelivered ==
    ConnectReturned
        => /\ welcomes[last.sid] = 1
           /\ last.welcome \in {IF last.ctx # <<>> THEN "returning" ELSE "first_time",
                                "fallback"}

(* C6: send_message never raises to its caller: a delivery failure ends in *)
(* the error handler, and a send for a session without a registered        *)
(* channel changes nothing.                                                *)
C6_SendNeverRaises ==
    [][/\ last'.op \in {"send_start", "send_noop", "send_ok", "send_fail", "wake"}
            => ~last'.raised
       /\ last'.op = "send_fail" => last'.handler
       /\ last'.op = "send_noop"
            => /\ active_connections[last'.sid] = NoChannel
               /\ UNCHANGED <<conn_vars, redis, mongo>>]_vars

(* The handler's try block raised (KeyError) and send_message still        *)
(* returned normally.                                                      *)
C6_Witness ==
    /\ HandledFailure /\ last.branch = "retry" /\ last.wait = 0
    /\ ~last.raised

(* C7: after disconnect returns neither a channel nor a retry counter is   *)
(* held for the session, whatever the state before, and a second call      *)
(* changes nothing.                                                        *)
C7_DisconnectTotal ==
    last.op = "disconnect"
        => /\ active_connections[last.sid] = NoChannel
           /\ reconnect_attempts[last.sid] = NoCounter
           /\ disconnect(Manager, last.sid) = Manager

----------------------------------------------------------------------------
(* Properties of the orchestrator (SpecChat).                              *)

BotTurns(h) == {i \in DOMAIN h : h[i].type = "bot"}

(* Assistant turns of a context whose text holds a question mark.          *)
QuestionTurns(ctx) == {i \in BotTurns(ctx) : ctx[i].question}

Derived == last.op = "process_message" /\ last.derived

(* C9: an invocation is in ASSESSING exactly when the whole context it     *)
(* read holds at least 4 assistant turns with a question mark or the       *)
(* aggregate severity of that context is >= 7.                             *)
C9_AssessingIff ==
    Derived =>
        LET sev == severities(analyze_symptoms(last.ctx)) IN
        (mode[last.sid] = "ASSESSING")
            <=> \/ Cardinality(QuestionTurns(last.ctx)) >= QuestionThreshold
                \/ (sev # <<>> /\ SumSeq(sev) >= SeverityThreshold * Len(sev))

(* Four questions were asked, more than a prompt window ago, the severity  *)
(* is below 7, and the invocation is in ASSESSING.                         *)
C9_Witness ==
    /\ Derived
    /\ Cardinality(QuestionTurns(last.ctx)) = QuestionThreshold
    /\ Len(last.ctx) > ContextWindow
    /\ LET sev == severities(analyze_symptoms(last.ctx)) IN
       sev # <<>> /\ SumSeq(sev) < SeverityThreshold * Len(sev)
    /\ mode[last.sid] = "ASSESSING"

----------------------------------------------------------------------------
(* Properties of the stored conversation (SpecStore).                      *)

(* process_message has returned a payload to its caller.                   *)
Returned == last.op = "process_message" /\ ~last.raised

LastTurn(h) == h[Len(h)]

C12_ModelFailureAbsorbed ==
    (last.op = "process_message" /\ last.branch = "ai_fail")
        => /\ ~last.raised
           /\ last.text = "apology"
           /\ last.stored

(* new is old followed by a patient turn and an assistant turn.            *)
GainedExchange(old, new) ==
    /\ Len(new) = Len(old) + 2
    /\ SubSeq(new, 1, Len(old)) = old
    /\ new[Len(new) - 1].type = "user"
    /\ new[Len(new)].type = "bot"

C15_NoRawErrorText == last.error # "exception_text"

IsPrefix(old, new) ==
    /\ Len(old) <= Len(new)
    /\ SubSeq(new, 1, Len(old)) = old

(* C18: whenever process_message or the HTTP update_chat_history rewrites  *)
(* the cached context, the sequence stored before is a prefix of the       *)
(* sequence stored after.                                                  *)
C18_CacheAppendOnly ==
    [][\A s \in Sessions :
          (last'.op \in {"process_message", "handle_message"} /\ redis'[s] # redis[s])
              => IsPrefix(redis[s], redis'[s])]_vars

(* C19: after an operation that has read a non-empty cached context, the   *)
(* entry has its full hour to live again.                                  *)
C19_AccessExtendsExpiry ==
    (/\ last.op \in {"process_message", "handle_message"}
     /\ Len(last.ctx) > 1
     /\ redis[last.sid] # <<>>)
        => ttl[last.sid] = conversation_expiry

(* C20: the process_message that follows the expiry of the cached context  *)
(* works on the durable chat history followed by the new patient turn.     *)
C20_ExpiredContextRebuilt ==
    [][(/\ last.op = "expire"
        /\ last'.op = "process_message" /\ last'.derived
        /\ last'.sid = last.sid)
          => last'.ctx = Append(mongo[last.sid].chat_history, UserTurn)]_vars

----------------------------------------------------------------------------
(* Properties of the websocket endpoint (SpecEndpoint).                    *)

(* C14 as stated: a malformed message puts the "Invalid message format"    *)
(* payload on the channel, and when that send is over the loop receives    *)
(* again; neither step touches the registry or the stored conversation.    *)
C14_MalformedKeepsSession ==
    [][\A s \in Sessions, c \in Channels :
          /\ (last'.op = "receive_text" /\ last'.branch = "malformed"
                /\ last'.sid = s /\ last'.chan = c)
                => /\ pc'[s][c] = "send_invalid"
                   /\ UNCHANGED <<active_connections, redis, mongo>>
          /\ (pc[s][c] = "send_invalid" /\ pc'[s][c] # "send_invalid")
                => /\ pc'[s][c] = "receiving"
                   /\ UNCHANGED <<active_connections, redis, mongo>>]_vars

(* C14 amended: a malformed message puts the fixed "Invalid message        *)
(* format" payload on the channel and leaves the registry and the stored   *)
(* conversation alone; when the payload is delivered the loop receives     *)
(* again with the registry unchanged, and when its send fails the loop     *)
(* ends and the session's registry entry is removed.                       *)
C14_MalformedReported ==
    [][\A s \in Sessions, c \in Channels :
          /\ (last'.op = "receive_text" /\ last'.branch = "malformed"
                /\ last'.sid = s /\ last'.chan = c)
                => /\ pc'[s][c] = "send_invalid"
                   /\ last'.text = "invalid_format" /\ last'.error = "fixed"
                   /\ UNCHANGED <<active_connections, redis, mongo>>
          /\ (pc[s][c] = "send_invalid" /\ pc'[s][c] # "send_invalid")
                => /\ UNCHANGED <<redis, mongo>>
                   /\ IF last'.raised
                      THEN /\ pc'[s][c] = "closed"
                           /\ active_connections'[s] = NoChannel
                      ELSE /\ pc'[s][c] = "receiving"
                           /\ UNCHANGED active_connections]_vars

(* The error payload of a malformed message was delivered on a session     *)
(* with a stored conversation; the channel is registered and receiving.    *)
C14_Witness ==
    /\ last.op = "send_json" /\ last.branch = "send_invalid" /\ ~last.raised
    /\ pc[last.sid][last.chan] = "receiving"
    /\ active_connections[last.sid] = last.chan
    /\ redis[last.sid] # <<>>

(* Channels of a session whose coroutine is inside the pipeline.           *)
Processing(s) == {c \in Channels : pc[s][c] = "processing"}

(* C16: at most one process_message pipeline of a session is in progress   *)
(* at any time, whatever channels are open for it.                         *)
C16_OnePipelineAtATime ==
    \A s \in Sessions : Cardinality(Processing(s)) <= 1

(* One channel of the session is inside the pipeline while another one,    *)
(* open for the same session, waits in a send or for its next message.     *)
C16_Witness ==
    \E s \in Sessions, c1 \in Channels, c2 \in Channels :
        /\ c1 # c2
        /\ pc[s][c1] = "processing"
        /\ pc[s][c2] \in SendStates \cup {"receiving"}
        /\ redis[s] # <<>>

(* Channels of a session that have read a message and are handling it or   *)
(* delivering its result.                                                  *)
Serving(s) == {c \in Channels : pc[s][c] \in {"processing", "send_bot", "send_error"}}

(* C17: at most one channel serves a session at a time: messages are never *)
(* read and processed from two channels of the same session.               *)
C17_OneServingChannel ==
    \A s \in Sessions : Cardinality(Serving(s)) <= 1


(* C21: validate_response accepts exactly the completions of at least 50   *)
(* characters that match the symptom, confidence-tag and recommendation-   *)
(* tag patterns; a missing emergency vocabulary alone never rejects.       *)
C21_AcceptsThreeClasses ==
    last.op = "validate_response" =>
        (last.res.is_valid <=>
            /\ call.arg.length >= MinResponseLength
            /\ {"symptom_mention", "confidence_score", "recommendation"}
                   \subseteq call.arg.matches)

(* C22: for a completion of sufficient length that lacks both the          *)
(* confidence tag and the recommendation tag, the validator's reason lists *)
(* both names, the payload of EnhancedConnectionManager.process_message    *)
(* carries the fallback apology, and requires_emergency is false.          *)
C22_FallbackSubstituted ==
    (/\ last.op = "enhanced_process_message"
     /\ call.arg.length >= MinResponseLength
     /\ "confidence_score" \notin call.arg.matches
     /\ "recommendation" \notin call.arg.matches)
    => LET verdict == validate_response(call.arg) IN
       /\ ~verdict.is_valid
       /\ {"confidence_score", "recommendation"} \subseteq Range(verdict.missing)
       /\ last.text = "repeat_fallback"
       /\ last.res.requires_emergency = FALSE

(* C23: the text returned by enhance_response is made of, in this order,   *)
(* the emergency banner iff requires_emergency, the body, the disclaimer   *)
(* iff average_confidence < 70, the recommendations block iff there is at  *)
(* least one recommendation; each part depends on its own condition only.  *)
C23_FixedOrder ==
    last.op = "enhance_response" =>
        last.res = SelectSeq(<<"banner", "main_response", "disclaimer", "recommendations">>,
                             LAMBDA part :
                                 CASE part = "banner" -> call.arg.requires_emergency
                                   [] part = "disclaimer" ->
                                          call.arg.average_confidence < LowConfidence
                                   [] part = "recommendations" ->
                                          call.arg.recommendations # <<>>
                                   [] OTHER -> TRUE)

C23_Witness ==
    /\ last.op = "enhance_response"
    /\ call.arg.requires_emergency
    /\ call.arg.average_confidence = LowConfidence - 1
    /\ call.arg.recommendations # <<>>
    /\ Len(last.res) = 4

(* C24: the display text of the payload carries the emergency banner       *)
(* whenever the validation signalled an emergency or the derived risk      *)
(* level is high.                                                          *)
C24_BannerOnEitherSignal ==
    (/\ last.op = "_process_response"
     /\ (call.arg.validation.emergency_high \/ call.arg.risk_level = "high"))
    => last.text = "urgent_completion"


Tier(risk_level) ==
    CASE risk_level = "low" -> 1
      [] risk_level = "medium" -> 2
      [] risk_level = "high" -> 3

Urgency(timeframe) ==
    CASE timeframe = "within a week" -> 1
      [] timeframe = "within 24 hours" -> 2
      [] timeframe = "immediate" -> 3

ScoreAtLeast(a, b) == a.num * b.den >= b.num * a.den

(* C25: of two symptom lists, the one whose severity score is at least the *)
(* other's gets a risk tier at least as high (low < medium < high) and a   *)
(* timeframe at least as urgent.                                           *)
C25_RiskMonotone ==
    last.op = "compare_risk" =>
        (ScoreAtLeast(calculate_severity_score(call.arg[1]),
                      calculate_severity_score(call.arg[2]))
         => /\ Tier(last.res[1].risk_level) >= Tier(last.res[2].risk_level)
            /\ Urgency(last.res[1].timeframe) >= Urgency(last.res[2].timeframe))

C25_Witness ==
    /\ last.op = "compare_risk"
    /\ Len(call.arg[1]) = MaxSymptoms
    /\ ~ScoreAtLeast(calculate_severity_score(call.arg[2]),
                     calculate_severity_score(call.arg[1]))
    /\ last.res[1].risk_level = "high"
    /\ last.res[2].risk_level = "medium"
    /\ last.res[1].timeframe = "immediate"

(* C26: every symptom returned by analyze_symptoms has a severity in       *)
(* [0,10], and so has the score calculate_severity_score computes from     *)
(* them, whatever the raw severities were.                                 *)
C26_SeverityInScale ==
    last.op = "analyze_symptoms" =>
        /\ \A i \in 1..Len(last.res.symptoms) :
               /\ last.res.symptoms[i].severity # <<>>
               /\ last.res.symptoms[i].severity[1] \in 0..10
        /\ last.res.score.num >= 0
        /\ last.res.score.num <= 10 * last.res.score.den

(* C27: for the list holding one headache of severity 8 the risk level is  *)
(* high, the timeframe is of the immediate/24h tier and the specialist is  *)
(* Neurologist.                                                            *)
C27_HeadacheEight ==
    (last.op = "determine_risk_level" /\ call.arg = <<Symptom({"headache"}, 8)>>)
    => /\ last.res.risk_level = "high"
       /\ last.res.timeframe \in {"immediate", "within 24 hours"}
       /\ last.res.specialist = "Neurologist"

FirstIndex(items, item) ==
    CHOOSE i \in 1..Len(items) :
        items[i] = item /\ \A k \in 1..(i - 1) : items[k] # item

FirstDiscovery(collected, result) ==
    /\ Range(result) = Range(collected)
    /\ \A i, j \in 1..Len(result) : i # j => result[i] # result[j]
    /\ \A i, j \in 1..Len(result) :
           i < j => FirstIndex(collected, result[i]) < FirstIndex(collected, result[j])

(* C28: each generator returns, for one symptom list, always the same      *)
(* list; it has no duplicate entry and its entries are in the order in     *)
(* which they were first collected.                                        *)
C28_GeneratorsStable ==
    (last.op = "generate_recommendations" /\ ~last.raised) =>
        /\ last.res.medications = generate_medication_recommendations(call.arg)
        /\ last.res.remedies = generate_home_remedies(call.arg)
        /\ last.res.precautions = generate_precautions(call.arg)
        /\ FirstDiscovery(extend_matching(symptom_meds, call.arg),
                          last.res.medications.items)
        /\ FirstDiscovery(extend_matching(symptom_remedies, call.arg),
                          last.res.remedies.items)
        /\ FirstDiscovery(collected_precautions(call.arg),
                          last.res.precautions.items)

C28_Witness ==
    /\ last.op = "generate_recommendations"
    /\ ~last.raised
    /\ Len(last.res.medications.items) > 2
    /\ Len(last.res.medications.items) < Len(extend_matching(symptom_meds, call.arg))
    /\ Len(last.res.remedies.items) < Len(extend_matching(symptom_remedies, call.arg))
    /\ Len(last.res.precautions.items) < Len(collected_precautions(call.arg))

(* C29: for the empty symptom list the medications, the home remedies and  *)
(* the precautions are non-empty lists obtained without an exception, and  *)
(* the timeframe and the specialist are non-empty texts.                   *)
C29_EmptyListDefaults ==
    /\ (last.op = "generate_recommendations" /\ call.arg = <<>>)
       => /\ ~last.raised
          /\ last.res.medications.items # <<>>
          /\ last.res.remedies.items # <<>>
          /\ last.res.precautions.items # <<>>
    /\ (last.op = "determine_risk_level" /\ call.arg = <<>>)
       => /\ last.res.timeframe # ""
          /\ last.res.specialist # ""

(* C30: analyze_symptoms, calculate_severity_score, determine_risk_level,  *)
(* the generators and generate_diagnosis_description never raise, whatever *)
(* the chat history or symptom list.                                       *)
C30_AccessorsTotal ==
    last.op \in {"analyze_symptoms", "determine_risk_level", "compare_risk",
                 "generate_recommendations", "generate_diagnosis_description"}
    => ~last.raised


(* C31: the list returned by generate_precautions starts with the three    *)
(* base precautions; the urgent precautions follow exactly when the mean   *)
(* severity is > 7, the moderate ones exactly when it is > 4 and <= 7,     *)
(* and never both.                                                         *)
C31_PrecautionTiers ==
    (last.op = "generate_recommendations" /\ ~last.res.precautions.raised) =>
        LET items == last.res.precautions.items
            score == calculate_severity_score(call.arg)
            urgent == score.num > 7 * score.den
            moderate == score.num > 4 * score.den /\ score.num <= 7 * score.den
        IN  /\ Len(items) >= 3
            /\ SubSeq(items, 1, 3) = base_precautions
            /\ IF urgent
               THEN Len(items) >= 6 /\ SubSeq(items, 4, 6) = urgent_precautions
               ELSE Range(urgent_precautions) \cap Range(items) = {}
            /\ IF moderate
               THEN Len(items) >= 6 /\ SubSeq(items, 4, 6) = moderate_precautions
               ELSE Range(moderate_precautions) \cap Range(items) = {}

C31_Witness ==
    /\ last.op = "generate_recommendations"
    /\ ~last.res.precautions.raised
    /\ Len(call.arg) = MaxSymptoms
    /\ LET score == calculate_severity_score(call.arg) IN score.num = 7 * score.den
    /\ SubSeq(last.res.precautions.items, 4, 6) = moderate_precautions
    /\ Len(last.res.precautions.items) > 6


(* C32: a successful send leaves the session's retry counter at 0, and the *)
(* value a failure handler increments the counter to never exceeds the     *)
(* number of failures of the session since its last successful send (as    *)
(* long as that number is within the reconnection bound).                  *)
C32_SuccessResetsCounter ==
    /\ last.op = "send_ok" => reconnect_attempts[last.sid] = 0
    /\ (HandledFailure /\ last.attempts # NoCounter)
           => \/ last.attempts <= fail_streak[last.sid]
              \/ fail_streak[last.sid] > max_reconnect_attempts

(* Two failures of one session with a successful send between them: both   *)
(* handlers are still in their sleep and the second counted from 1.        *)
C32_Witness ==
    /\ HandledFailure
    /\ last.attempts = 1
    /\ fail_streak[last.sid] = 1
    /\ sleeping[last.sid] >= 2

(* C33: once the failure of a send has been handled, the channel the send  *)
(* went to is not registered for the session any more.                     *)
C33_FailedChannelRemoved ==
    HandledFailure => active_connections[last.sid] # last.chan

(* C34: every session that has a retry counter has a registered channel.   *)
C34_CounterImpliesChannel ==
    \A s \in Sessions :
        reconnect_attempts[s] # NoCounter => active_connections[s] # NoChannel


LoopEnds(s, c) == pc[s][c] # "closed" /\ pc'[s][c] = "closed"

(* C35: when the receive loop of a channel ends while another channel is   *)
(* registered for the same session, the disconnect of the ending loop      *)
(* leaves that other channel registered.                                   *)
C35_NewerChannelKept ==
    [][\A s \in Sessions, c \in Channels :
           (LoopEnds(s, c) /\ active_connections[s] # c)
               => active_connections'[s] = active_connections[s]]_vars

C38_LoopEndDisconnects ==
    [][/\ \A s \in Sessions, c \in Channels :
              LoopEnds(s, c) => active_connections'[s] = NoChannel
       /\ \A s \in Sessions :
              active_connections'[s] # NoChannel
                  => pc'[s][active_connections'[s]] # "closed"
       /\ \A s \in Sessions, c \in Channels :
              /\ pc[s][c] = "processing"
                     => pc'[s][c] \in {"processing", "send_bot", "send_error"}
              /\ (pc[s][c] = "processing" /\ last'.op = "process_message" /\ last'.raised)
                     => pc'[s][c] = "send_error"
              /\ pc[s][c] = "send_error"
                     => pc'[s][c] \in {"send_error", "receiving"}
              /\ pc[s][c] = "receiving" /\ last'.op = "receive_text"
                     => pc'[s][c] # "closed"]_vars

(* A loop that served a message has ended on a failing receive_text.       *)
C38_Witness ==
    /\ last.op = "loop_end"
    /\ pc[last.sid][last.chan] = "closed"
    /\ active_connections[last.sid] = NoChannel
    /\ mongo[last.sid].chat_history # <<>>

============================================================================
